---- MODULE Spec2Model ----
(***************************************************************************)
(* Media access logging middleware of server/middlewares (log_filter.go).  *)
(*                                                                         *)
(* Strings are sequences of one-character strings, so that HasPrefix,      *)
(* filepath.Ext and strings.ToLower are computed character by character.   *)
(* Request and response bodies are sequences of JSON tokens (the "bytes"   *)
(* of the model): json.Unmarshal is modelled as a syntax check of the      *)
(* whole token sequence followed by a best-effort decode into the target   *)
(* struct, as encoding/json does it.                                       *)
(*                                                                         *)
(* The file also holds two earlier generations of the logger, modelled at  *)
(* the end of the module: the MediaLoggerWithDebug that writes bodies to   *)
(* the debug log, and LoggerFilterWriter with its lazily compiled          *)
(* patterns.                                                               *)
(***************************************************************************)
EXTENDS Integers, Sequences, FiniteSets, TLC

(***************************************************************************)
(* Bounds of the model.                                                    *)
(***************************************************************************)
\* the handler writes its response in at most MaxChunks write calls
MaxChunks == 2
\* a list envelope carries at most MaxEntries content entries
MaxEntries == 2
\* a responseBodyWriter on its own receives at most MaxWrites calls
MaxWrites == 3

(***************************************************************************)
(* Strings.                                                                *)
(***************************************************************************)
UpperChars == <<"A","B","C","D","E","F","G","H","I","J","K","L","M",
                "N","O","P","Q","R","S","T","U","V","W","X","Y","Z">>
LowerChars == <<"a","b","c","d","e","f","g","h","i","j","k","l","m",
                "n","o","p","q","r","s","t","u","v","w","x","y","z">>

\* letters outside ASCII that unicode.ToLower changes, each written as one
\* symbol: U+212A KELVIN SIGN, U+0130 LATIN CAPITAL I WITH DOT ABOVE and
\* U+00C9 E ACUTE, with what they are lowered to (k, i, U+00E9)
UpperOthers == << "KELVIN", "IDOT", "EACUTE" >>
LowerOthers == << "k", "i", "eacute" >>

\* a byte that is no valid UTF-8, and U+FFFD, which strings.ToLower puts in
\* its place
sBadByte == "BADBYTE"
sRuneError == "FFFD"

\* unicode.ToLower(c), with the replacement of invalid bytes that
\* strings.Map does on the way
LowerChar(c) ==
    IF \E i \in 1..26 : UpperChars[i] = c
    THEN LowerChars[CHOOSE i \in 1..26 : UpperChars[i] = c]
    ELSE IF \E i \in 1..Len(UpperOthers) : UpperOthers[i] = c
    THEN LowerOthers[CHOOSE i \in 1..Len(UpperOthers) : UpperOthers[i] = c]
    ELSE IF c = sBadByte THEN sRuneError
    ELSE c

\* strings.ToLower: a string of ASCII is lowered byte by byte; any other
\* goes through strings.Map(unicode.ToLower, s), rune by rune
ToLower(s) == [i \in 1..Len(s) |-> LowerChar(s[i])]

\* strings.HasPrefix
HasPrefix(s, prefix) ==
    /\ Len(s) >= Len(prefix)
    /\ SubSeq(s, 1, Len(prefix)) = prefix

HasSuffix(s, suffix) ==
    /\ Len(s) >= Len(suffix)
    /\ SubSeq(s, Len(s) - Len(suffix) + 1, Len(s)) = suffix

\* strings.Contains
Contains(s, sub) ==
    \E i \in 1..(Len(s) + 1) :
        /\ i + Len(sub) - 1 <= Len(s)
        /\ SubSeq(s, i, i + Len(sub) - 1) = sub

\* filepath.Ext: the suffix beginning at the final dot in the final
\* slash-separated element of the path; empty if there is no dot.
FilepathExt(path) ==
    LET dots == {i \in 1..Len(path) :
                    /\ path[i] = "."
                    /\ \A j \in i..Len(path) : path[j] # "/"}
    IN  IF dots = {} THEN <<>>
        ELSE SubSeq(path, CHOOSE i \in dots : \A j \in dots : j <= i, Len(path))

(***************************************************************************)
(* The media registry and the ignored prefixes.                            *)
(***************************************************************************)
mediaExtensions ==
    { <<".","j","p","g">>, <<".","j","p","e","g">>, <<".","p","n","g">>,
      <<".","g","i","f">>, <<".","b","m","p">>, <<".","w","e","b","p">>,
      <<".","s","v","g">>, <<".","t","i","f","f">>, <<".","i","c","o">>,
      <<".","h","e","i","c">>,
      <<".","m","p","4">>, <<".","a","v","i">>, <<".","m","k","v">>,
      <<".","m","o","v">>, <<".","w","m","v">>, <<".","f","l","v">>,
      <<".","w","e","b","m">>, <<".","m","4","v">>, <<".","m","p","g">>,
      <<".","m","p","e","g">>, <<".","3","g","p">>, <<".","r","m">>,
      <<".","r","m","v","b">>, <<".","t","s">>, <<".","m","3","u","8">> }

sAssets  == <<"/","a","s","s","e","t","s","/">>
sImages  == <<"/","i","m","a","g","e","s","/">>
sFavicon == <<"/","f","a","v","i","c","o","n",".","i","c","o">>
sRobots  == <<"/","r","o","b","o","t","s",".","t","x","t">>
sPing    == <<"/","p","i","n","g">>

ignoredPaths == <<sAssets, sImages, sFavicon, sRobots, sPing>>

sApi      == <<"/","a","p","i","/">>
sApiList  == <<"/","a","p","i","/","f","s","/","l","i","s","t">>
sApiGet   == <<"/","a","p","i","/","f","s","/","g","e","t">>

\* isMediaFilePath without the strings.ToLower
isMediaFilePath_CaseSensitive(path) == FilepathExt(path) \in mediaExtensions

\* isMediaFilePath
isMediaFilePath(path) == ToLower(FilepathExt(path)) \in mediaExtensions

\* isMediaFileName
isMediaFileName(filename) == ToLower(FilepathExt(filename)) \in mediaExtensions

\* the loop over ignoredPaths at the head of MediaLoggerMiddleware
hasIgnoredPrefix(path) ==
    \E i \in 1..Len(ignoredPaths) : HasPrefix(path, ignoredPaths[i])

\* The branch MediaLoggerMiddleware takes for a request path, in the order
\* of its if-chain.
Classify(path) ==
    IF hasIgnoredPrefix(path) THEN "Ignored"
    ELSE IF isMediaFilePath(path) THEN "DirectMedia"
    ELSE IF HasPrefix(path, sApi)
         THEN IF path = sApiList \/ HasPrefix(path, sApiList \o <<"?">>)
              THEN "ListQuery"
              ELSE IF path = sApiGet \/ HasPrefix(path, sApiGet \o <<"?">>)
                   THEN "GetQuery"
                   ELSE "Other"
    ELSE "Other"

\* intercepts, were the direct media branch to capture as well
intercepts_AlsoDirectMedia(b) == b \in {"ListQuery", "GetQuery", "DirectMedia"}

\* the branches of MediaLoggerMiddleware that go through handleFSListRequest
\* or handleFSGetRequest, which capture the request body and wrap c.Writer
intercepts(b) == b \in {"ListQuery", "GetQuery"}

(***************************************************************************)
(* JSON.  A body is a sequence of tokens [k, s, n]: punctuation, string    *)
(* (s), integer number (n), null, true, or "bad" (a byte that starts no    *)
(* JSON token).  A value is a tree [k, s, n, keys, kids].                  *)
(***************************************************************************)
Tok(k)    == [k |-> k, s |-> <<>>, n |-> 0]
TokStr(s) == [k |-> "str", s |-> s, n |-> 0]
TokNum(n) == [k |-> "num", s |-> <<>>, n |-> n]

JNull           == [k |-> "null", s |-> <<>>, n |-> 0, keys |-> <<>>, kids |-> <<>>]
JTrue           == [k |-> "true", s |-> <<>>, n |-> 0, keys |-> <<>>, kids |-> <<>>]
JStr(s)         == [k |-> "str", s |-> s, n |-> 0, keys |-> <<>>, kids |-> <<>>]
JNum(n)         == [k |-> "num", s |-> <<>>, n |-> n, keys |-> <<>>, kids |-> <<>>]
JArr(kids)      == [k |-> "arr", s |-> <<>>, n |-> 0, keys |-> <<>>, kids |-> kids]
JObj(keys, kids) == [k |-> "obj", s |-> <<>>, n |-> 0, keys |-> keys, kids |-> kids]

\* The scanner of encoding/json over a token sequence: the value parsed
\* from the head of ts and the tokens left, or ok = FALSE on a syntax error.
RECURSIVE ParseValue(_), ParseMembers(_, _, _), ParseElements(_, _)

ParseFail == [ok |-> FALSE, val |-> JNull, rest |-> <<>>]

ParseValue(ts) ==
    IF ts = <<>> THEN ParseFail
    ELSE LET t == Head(ts)
             r == Tail(ts)
         IN  CASE t.k = "str"  -> [ok |-> TRUE, val |-> JStr(t.s), rest |-> r]
               [] t.k = "num"  -> [ok |-> TRUE, val |-> JNum(t.n), rest |-> r]
               [] t.k = "null" -> [ok |-> TRUE, val |-> JNull, rest |-> r]
               [] t.k = "true" -> [ok |-> TRUE, val |-> JTrue, rest |-> r]
               [] t.k = "{" ->
                    IF r # <<>> /\ Head(r).k = "}"
                    THEN [ok |-> TRUE, val |-> JObj(<<>>, <<>>), rest |-> Tail(r)]
                    ELSE ParseMembers(r, <<>>, <<>>)
               [] t.k = "[" ->
                    IF r # <<>> /\ Head(r).k = "]"
                    THEN [ok |-> TRUE, val |-> JArr(<<>>), rest |-> Tail(r)]
                    ELSE ParseElements(r, <<>>)
               [] OTHER -> ParseFail

ParseMembers(ts, keys, kids) ==
    IF Len(ts) < 2 \/ ts[1].k # "str" \/ ts[2].k # ":" THEN ParseFail
    ELSE LET pv == ParseValue(SubSeq(ts, 3, Len(ts)))
         IN  IF ~pv.ok \/ pv.rest = <<>> THEN ParseFail
             ELSE IF Head(pv.rest).k = ","
                  THEN ParseMembers(Tail(pv.rest), Append(keys, ts[1].s),
                                    Append(kids, pv.val))
             ELSE IF Head(pv.rest).k = "}"
                  THEN [ok |-> TRUE,
                        val |-> JObj(Append(keys, ts[1].s), Append(kids, pv.val)),
                        rest |-> Tail(pv.rest)]
             ELSE ParseFail

ParseElements(ts, kids) ==
    LET pv == ParseValue(ts)
    IN  IF ~pv.ok \/ pv.rest = <<>> THEN ParseFail
        ELSE IF Head(pv.rest).k = ","
             THEN ParseElements(Tail(pv.rest), Append(kids, pv.val))
        ELSE IF Head(pv.rest).k = "]"
             THEN [ok |-> TRUE, val |-> JArr(Append(kids, pv.val)),
                   rest |-> Tail(pv.rest)]
        ELSE ParseFail

\* checkValid of json.Unmarshal: the whole input is exactly one JSON value
jsonValid(data) ==
    LET p == ParseValue(data) IN p.ok /\ p.rest = <<>>

jsonValue(data) == ParseValue(data).val

(***************************************************************************)
(* The structs the bodies are decoded into, and the decode of a JSON value *)
(* into each of them.  A decoder returns [val, err]: a value of the wrong  *)
(* JSON type for a field leaves that field alone, records the error and    *)
(* the decode goes on with the fields that follow; null leaves a scalar or *)
(* a struct alone and resets a slice to nil.                               *)
(***************************************************************************)
sName    == <<"n","a","m","e">>
sPath    == <<"p","a","t","h">>
sType    == <<"t","y","p","e">>
sCode    == <<"c","o","d","e">>
sContent == <<"c","o","n","t","e","n","t">>
sData    == <<"d","a","t","a">>

\* zero values of fsRequest, fsObject, fsListResponse, fsGetResponse
fsRequest      == [Path |-> <<>>]
fsObject       == [Name |-> <<>>, Path |-> <<>>, Type |-> 0]
fsListResponse == [Code |-> 0, Content |-> <<>>]
fsGetResponse  == [Code |-> 0, Data |-> fsObject]

decodeString(cur, v) ==
    CASE v.k = "str"  -> [val |-> v.s, err |-> FALSE]
      [] v.k = "null" -> [val |-> cur, err |-> FALSE]
      [] OTHER        -> [val |-> cur, err |-> TRUE]

decodeInt(cur, v) ==
    CASE v.k = "num"  -> [val |-> v.n, err |-> FALSE]
      [] v.k = "null" -> [val |-> cur, err |-> FALSE]
      [] OTHER        -> [val |-> cur, err |-> TRUE]

\* a struct field is matched by its json name, case-insensitively
fieldIs(key, name) == ToLower(key) = name

RECURSIVE decodeFsObjectFields(_, _, _)
decodeFsObjectFields(st, v, i) ==
    IF i > Len(v.kids) THEN st
    ELSE LET key == v.keys[i]
             kid == v.kids[i]
             nxt ==
               IF fieldIs(key, sName)
               THEN LET d == decodeString(st.val.Name, kid)
                    IN  [val |-> [st.val EXCEPT !.Name = d.val],
                         err |-> st.err \/ d.err]
               ELSE IF fieldIs(key, sPath)
               THEN LET d == decodeString(st.val.Path, kid)
                    IN  [val |-> [st.val EXCEPT !.Path = d.val],
                         err |-> st.err \/ d.err]
               ELSE IF fieldIs(key, sType)
               THEN LET d == decodeInt(st.val.Type, kid)
                    IN  [val |-> [st.val EXCEPT !.Type = d.val],
                         err |-> st.err \/ d.err]
               ELSE st
         IN  decodeFsObjectFields(nxt, v, i + 1)

decodeFsObject(cur, v) ==
    CASE v.k = "obj"  -> decodeFsObjectFields([val |-> cur, err |-> FALSE], v, 1)
      [] v.k = "null" -> [val |-> cur, err |-> FALSE]
      [] OTHER        -> [val |-> cur, err |-> TRUE]

\* []fsObject.  cur is the slice the field holds and back what its backing
\* array holds beyond its length.  The elements of a JSON array are decoded
\* one by one into the slice, lengthened as needed: an element that is
\* already there, within the length or behind it, is decoded into as it is
\* (what the JSON does not set stays), a new one starts as the zero
\* fsObject.  The length is then cut to the number of elements; an empty
\* array gives a fresh empty slice and null a nil one.
decodeContent(cur, back, v) ==
    LET old == cur \o back
        target(i) == IF i <= Len(old) THEN old[i] ELSE fsObject
        n == Len(v.kids)
    IN  CASE v.k = "arr" ->
               [val  |-> [i \in 1..n |-> decodeFsObject(target(i), v.kids[i]).val],
                err  |-> \E i \in 1..n : decodeFsObject(target(i), v.kids[i]).err,
                back |-> IF n = 0 THEN <<>> ELSE SubSeq(old, n + 1, Len(old))]
          [] v.k = "null" -> [val |-> <<>>, err |-> FALSE, back |-> <<>>]
          [] OTHER        -> [val |-> cur, err |-> TRUE, back |-> back]

RECURSIVE decodeFsRequestFields(_, _, _)
decodeFsRequestFields(st, v, i) ==
    IF i > Len(v.kids) THEN st
    ELSE LET nxt ==
               IF fieldIs(v.keys[i], sPath)
               THEN LET d == decodeString(st.val.Path, v.kids[i])
                    IN  [val |-> [st.val EXCEPT !.Path = d.val],
                         err |-> st.err \/ d.err]
               ELSE st
         IN  decodeFsRequestFields(nxt, v, i + 1)

RECURSIVE decodeFsListResponseFields(_, _, _)
decodeFsListResponseFields(st, v, i) ==
    IF i > Len(v.kids) THEN st
    ELSE LET nxt ==
               IF fieldIs(v.keys[i], sCode)
               THEN LET d == decodeInt(st.val.Code, v.kids[i])
                    IN  [val |-> [st.val EXCEPT !.Code = d.val],
                         err |-> st.err \/ d.err,
                         back |-> st.back]
               ELSE IF fieldIs(v.keys[i], sContent)
               THEN LET d == decodeContent(st.val.Content, st.back, v.kids[i])
                    IN  [val |-> [st.val EXCEPT !.Content = d.val],
                         err |-> st.err \/ d.err,
                         back |-> d.back]
               ELSE st
         IN  decodeFsListResponseFields(nxt, v, i + 1)

RECURSIVE decodeFsGetResponseFields(_, _, _)
decodeFsGetResponseFields(st, v, i) ==
    IF i > Len(v.kids) THEN st
    ELSE LET nxt ==
               IF fieldIs(v.keys[i], sCode)
               THEN LET d == decodeInt(st.val.Code, v.kids[i])
                    IN  [val |-> [st.val EXCEPT !.Code = d.val],
                         err |-> st.err \/ d.err]
               ELSE IF fieldIs(v.keys[i], sData)
               THEN LET d == decodeFsObject(st.val.Data, v.kids[i])
                    IN  [val |-> [st.val EXCEPT !.Data = d.val],
                         err |-> st.err \/ d.err]
               ELSE st
         IN  decodeFsGetResponseFields(nxt, v, i + 1)

\* json.Unmarshal(data, &req) with req a zero fsRequest
unmarshalFsRequest(data) ==
    IF ~jsonValid(data) THEN [val |-> fsRequest, err |-> TRUE]
    ELSE LET v == jsonValue(data)
         IN  CASE v.k = "obj" ->
                    decodeFsRequestFields([val |-> fsRequest, err |-> FALSE], v, 1)
               [] v.k = "null" -> [val |-> fsRequest, err |-> FALSE]
               [] OTHER -> [val |-> fsRequest, err |-> TRUE]

\* json.Unmarshal(data, &resp) with resp a zero fsListResponse
unmarshalFsListResponse(data) ==
    LET zero(e) == [val |-> fsListResponse, err |-> e, back |-> <<>>]
    IN  IF ~jsonValid(data) THEN zero(TRUE)
        ELSE LET v == jsonValue(data)
             IN  CASE v.k = "obj" -> decodeFsListResponseFields(zero(FALSE), v, 1)
                   [] v.k = "null" -> zero(FALSE)
                   [] OTHER -> zero(TRUE)

\* json.Unmarshal(data, &resp) with resp a zero fsGetResponse
unmarshalFsGetResponse(data) ==
    IF ~jsonValid(data) THEN [val |-> fsGetResponse, err |-> TRUE]
    ELSE LET v == jsonValue(data)
         IN  CASE v.k = "obj" ->
                    decodeFsGetResponseFields(
                        [val |-> fsGetResponse, err |-> FALSE], v, 1)
               [] v.k = "null" -> [val |-> fsGetResponse, err |-> FALSE]
               [] OTHER -> [val |-> fsGetResponse, err |-> TRUE]

(***************************************************************************)
(* The request body stream and the response writer.                        *)
(*                                                                         *)
(* A body stream is [src, data, off, fail]: src is "nil" (Request.Body is  *)
(* nil), "original" (the stream of the connection) or "copy" (a buffer the *)
(* middleware put in its place); data are the bytes it yields, off how     *)
(* many have been read, fail whether it ends with an error, not with EOF.  *)
(***************************************************************************)
nilBody == [src |-> "nil", data |-> <<>>, off |-> 0, fail |-> FALSE]

\* io.ReadAll(body): the bytes from the current offset to the end, the
\* error the stream ends with, and the stream left consumed
ReadAll(b) ==
    [data |-> SubSeq(b.data, b.off + 1, Len(b.data)),
     err  |-> b.fail,
     body |-> [b EXCEPT !.off = Len(b.data)]]

\* requestBody, _ = io.ReadAll(c.Request.Body)
\* c.Request.Body = io.NopCloser(bytes.NewBuffer(requestBody))
captureRequestBody(b) ==
    LET r == ReadAll(b)
    IN  [requestBody |-> r.data,
         body |-> [src |-> "copy", data |-> r.data, off |-> 0, fail |-> FALSE]]

\* &responseBodyWriter{ResponseWriter: c.Writer, body: &bytes.Buffer{}}
newResponseBodyWriter == [wrapped |-> TRUE, body |-> <<>>]

\* c.Writer as the router hands it over
ginWriter == [wrapped |-> FALSE, body |-> <<>>]

Call(kind, data, res) == [kind |-> kind, data |-> data, n |-> res.n, err |-> res.err]

\* responseBodyWriter.Write returning the result of the buffer's Write
\* instead of the embedded writer's
responseBodyWriterWrite_BufferResult(w, u, b, res) ==
    [w     |-> [w EXCEPT !.body = @ \o b],
     under |-> Append(u, Call("Write", b, res)),
     ret   |-> [n |-> Len(b), err |-> FALSE]]

\* responseBodyWriter.Write(b), res being what the embedded writer's Write
\* returns for b: the new wrapper, the calls the embedded writer has
\* received, and the result handed back to the caller
responseBodyWriterWrite(w, u, b, res) ==
    [w     |-> [w EXCEPT !.body = @ \o b],
     under |-> Append(u, Call("Write", b, res)),
     ret   |-> res]

\* responseBodyWriter.WriteString(s)
responseBodyWriterWriteString(w, u, s, res) ==
    [w     |-> [w EXCEPT !.body = @ \o s],
     under |-> Append(u, Call("WriteString", s, res)),
     ret   |-> res]

\* a write on c.Writer, wrapped or not
writerCall(w, u, kind, data, res) ==
    IF w.wrapped
    THEN IF kind = "Write" THEN responseBodyWriterWrite(w, u, data, res)
                           ELSE responseBodyWriterWriteString(w, u, data, res)
    ELSE [w |-> w, under |-> Append(u, Call(kind, data, res)), ret |-> res]

(***************************************************************************)
(* What the middleware computes once c.Next() has returned.                *)
(***************************************************************************)
\* listMediaFiles stopping at the first media file, as MediaLoggerWithDebug
\* does
listMediaFiles_FirstOnly(responseData) ==
    LET resp == IF Len(responseData) > 0
                THEN unmarshalFsListResponse(responseData).val
                ELSE fsListResponse
        isMedia(item) == isMediaFileName(item.Name)
        hits == SelectSeq(resp.Content, isMedia)
    IN  IF resp.Code = 200 /\ Len(hits) > 0
        THEN << hits[1].Path \o <<"/">> \o hits[1].Name >>
        ELSE <<>>

\* handleFSListRequest: the mediaFiles collected from the captured response
listMediaFiles(responseData) ==
    LET resp == IF Len(responseData) > 0
                THEN unmarshalFsListResponse(responseData).val
                ELSE fsListResponse
        isMedia(item) == isMediaFileName(item.Name)
        hits == SelectSeq(resp.Content, isMedia)
    IN  IF resp.Code = 200 /\ Len(resp.Content) > 0
        THEN [i \in 1..Len(hits) |-> hits[i].Path \o <<"/">> \o hits[i].Name]
        ELSE <<>>

\* handleFSGetRequest: the paths logged for the captured response
getMediaFiles(responseData) ==
    LET resp == IF Len(responseData) > 0
                THEN unmarshalFsGetResponse(responseData).val
                ELSE fsGetResponse
    IN  IF resp.Code = 200 /\ isMediaFileName(resp.Data.Name)
        THEN << resp.Data.Path >>
        ELSE <<>>

\* MediaLoggerWithDebug: isMedia and mediaFilePath after the three checks
debugMedia(path, requestBody, responseData) ==
    LET byPath == isMediaFilePath(path)
        req == unmarshalFsRequest(requestBody)
        byReq ==
            /\ Len(requestBody) > 0
            /\ ~req.err
            /\ req.val.Path # <<>>
            /\ Contains(req.val.Path, <<".">>)
            /\ ToLower(FilepathExt(req.val.Path)) \in mediaExtensions
        list == unmarshalFsListResponse(responseData)
        isMedia(item) == isMediaFileName(item.Name)
        listHits == IF ~list.err /\ list.val.Code = 200
                    THEN SelectSeq(list.val.Content, isMedia)
                    ELSE <<>>
        get == unmarshalFsGetResponse(responseData)
        byGet == ~get.err /\ get.val.Code = 200 /\ isMediaFileName(get.val.Data.Name)
    IN  IF byPath THEN [isMedia |-> TRUE, mediaFilePath |-> path]
        ELSE IF byReq THEN [isMedia |-> TRUE, mediaFilePath |-> req.val.Path]
        ELSE IF Len(responseData) > 0 /\ listHits # <<>>
             THEN [isMedia |-> TRUE,
                   mediaFilePath |-> listHits[1].Path \o <<"/">> \o listHits[1].Name]
        ELSE IF Len(responseData) > 0 /\ byGet
             THEN [isMedia |-> TRUE, mediaFilePath |-> get.val.Data.Path]
        ELSE [isMedia |-> FALSE, mediaFilePath |-> path]

\* logMediaAccess(time.Now(), clientIP, filePath, username): the record
\* emitted, tagged with the place that emitted it
Record(via, filePath) == [via |-> via, path |-> filePath]

(***************************************************************************)
(* Inputs: request paths, request bodies, and the responses the downstream *)
(* handler writes.                                                         *)
(***************************************************************************)
RECURSIVE Encode(_), EncodeMembers(_, _), EncodeElements(_, _)

\* the token sequence of a JSON value
Encode(v) ==
    CASE v.k = "str"  -> << TokStr(v.s) >>
      [] v.k = "num"  -> << TokNum(v.n) >>
      [] v.k = "null" -> << Tok("null") >>
      [] v.k = "true" -> << Tok("true") >>
      [] v.k = "obj"  -> << Tok("{") >> \o EncodeMembers(v, 1) \o << Tok("}") >>
      [] v.k = "arr"  -> << Tok("[") >> \o EncodeElements(v, 1) \o << Tok("]") >>

EncodeMembers(v, i) ==
    IF i > Len(v.kids) THEN <<>>
    ELSE (IF i > 1 THEN << Tok(",") >> ELSE <<>>)
         \o << TokStr(v.keys[i]), Tok(":") >> \o Encode(v.kids[i])
         \o EncodeMembers(v, i + 1)

EncodeElements(v, i) ==
    IF i > Len(v.kids) THEN <<>>
    ELSE (IF i > 1 THEN << Tok(",") >> ELSE <<>>)
         \o Encode(v.kids[i]) \o EncodeElements(v, i + 1)

pDir == <<"/","d","/">>

Paths ==
    { sAssets \o <<"a",".","m","p","4">>,          \* /assets/a.mp4
      sImages \o <<"b",".","J","P","G">>,          \* /images/b.JPG
      sFavicon,                                     \* /favicon.ico
      sRobots,                                      \* /robots.txt
      sPing,                                        \* /ping
      sPing \o <<".","m","p","4">>,                \* /ping.mp4
      pDir \o <<"a",".","m","p","4">>,             \* /d/a.mp4
      pDir \o <<"b",".","M","k","v">>,             \* /d/b.Mkv
      pDir \o <<"a",".","t","x","t">>,             \* /d/a.txt
      <<"/","d",".","m","p","4","/","a">>,         \* /d.mp4/a
      sApiList,                                     \* /api/fs/list
      sApiGet,                                      \* /api/fs/get
      sApiList \o <<"?","x">>,                     \* /api/fs/list?x
      sApi \o <<"m","e">> }                        \* /api/me

Methods == {"GET", "POST"}

nMp4 == <<"a",".","m","p","4">>
nMkv == <<"b",".","M","K","V">>
nTxt == <<"a",".","t","x","t">>
nPng == <<"c",".","p","n","g">>
dirX == <<"/","x">>
dirY == <<"/","y">>

\* {"path": p}
ReqDoc(p) == Encode(JObj(<< sPath >>, << JStr(p) >>))

\* the bodies a client sends
SentBodies == { ReqDoc(dirX), ReqDoc(dirX \o <<"/">> \o nMp4) }

\* the stream of a body of which the first k bytes arrive
Stream(sent, k) ==
    [src |-> "original", data |-> SubSeq(sent, 1, k), off |-> 0,
     fail |-> k < Len(sent)]

\* the request bodies, as sent and as the server's stream yields them: no
\* body, a body that arrives whole, a body whose read fails part-way
RequestBodies ==
    { [sent |-> <<>>, stream |-> nilBody] }
    \cup { [sent |-> d, stream |-> Stream(d, Len(d))] : d \in SentBodies }
    \cup { [sent |-> d, stream |-> Stream(d, 2)] :
             d \in { ReqDoc(dirX \o <<"/">> \o nMp4) } }

Entry(name, dir) ==
    JObj(<< sName, sPath, sType >>, << JStr(name), JStr(dir), JNum(1) >>)

\* well-formed content entries
Entries == { Entry(nMp4, dirX), Entry(nMkv, dirY), Entry(nTxt, dirX) }

\* "type" is a string where fsObject.Type is an int
EntryBadType ==
    JObj(<< sName, sPath, sType >>,
         << JStr(nPng), JStr(dirX), JStr(<<"f","i","l","e">>) >>)

\* the sequences of at most n distinct elements of S
RECURSIVE SeqsUpTo(_, _)
SeqsUpTo(S, n) ==
    IF n = 0 THEN { <<>> }
    ELSE LET shorter == SeqsUpTo(S, n - 1)
             fresh(q) == { x \in S : \A i \in 1..Len(q) : q[i] # x }
         IN  shorter \cup
             UNION { { Append(q, e) : e \in fresh(q) } : q \in shorter }

\* the listings of a directory: no entry twice
Contents == SeqsUpTo(Entries, MaxEntries)

ListEnvelope(code, content) ==
    JObj(<< sCode, sContent >>, << code, JArr(content) >>)

GetEnvelope(code, data) ==
    JObj(<< sCode, sData >>, << code, data >>)

GetData ==
    { JObj(<< sName, sPath >>, << JStr(nMkv), JStr(dirY \o <<"/">> \o nMkv) >>),
      JObj(<< sName >>, << JStr(nMkv) >>),
      JObj(<< sName, sPath >>, << JStr(nTxt), JStr(dirX \o <<"/">> \o nTxt) >>) }

\* "path" is a number where fsObject.Path is a string
GetDataBadPath == JObj(<< sName, sPath >>, << JStr(nMkv), JNum(7) >>)

Codes == { JNum(200), JNum(404) }

WellFormedDocs ==
    { Encode(ListEnvelope(c, q)) : c \in Codes, q \in Contents }
    \cup { Encode(GetEnvelope(c, d)) : c \in Codes, d \in GetData }

\* valid JSON of another shape than the struct it is decoded into
MismatchDocs ==
    { Encode(ListEnvelope(JNum(200), << EntryBadType >>)),
      Encode(ListEnvelope(JNum(200), << JNum(5), Entry(nMp4, dirX) >>)),
      Encode(ListEnvelope(JStr(<<"2","0","0">>), << Entry(nMp4, dirX) >>)),
      Encode(GetEnvelope(JNum(200), GetDataBadPath)),
      Encode(JArr(<< Entry(nMp4, dirX) >>)) }

\* bytes that are no JSON value: not JSON at all, a value cut short, a
\* value followed by more bytes
MalformedDocs ==
    LET list == Encode(ListEnvelope(JNum(200), << Entry(nMp4, dirX) >>))
        get  == Encode(GetEnvelope(JNum(200),
                   JObj(<< sName, sPath >>, << JStr(nMkv), JStr(dirY) >>)))
    IN  { << Tok("bad") >>,
          SubSeq(list, 1, Len(list) - 1),
          SubSeq(get, 1, Len(get) - 2),
          get \o << Tok("bad") >> }

\* list envelopes that name "content" more than once: each later array is
\* decoded into the slice the earlier ones left
RepeatedKeyDocs ==
    LET onlyPath(dir) == JObj(<< sPath >>, << JStr(dir) >>)
        empty == JObj(<<>>, <<>>)
    IN  { Encode(JObj(<< sCode, sContent, sContent >>,
                      << JNum(200), JArr(<< Entry(nMp4, dirX) >>),
                         JArr(<< onlyPath(dirY) >>) >>)),
          Encode(JObj(<< sCode, sContent, sContent, sContent >>,
                      << JNum(200),
                         JArr(<< Entry(nMp4, dirX), Entry(nMkv, dirY) >>),
                         JArr(<< onlyPath(dirY) >>),
                         JArr(<< empty, empty >>) >>)),
          Encode(JObj(<< sCode, sContent, sContent >>,
                      << JNum(200), JArr(<< Entry(nMp4, dirX) >>),
                         JArr(<< JNum(3) >>) >>)) }

ResponseDocs ==
    { <<>> } \cup WellFormedDocs \cup MismatchDocs \cup MalformedDocs
    \cup RepeatedKeyDocs

\* doc cut into k chunks of equal length (the last takes the remainder),
\* written in turn with Write and WriteString
Chunks(doc, k) ==
    LET size == Len(doc) \div k
    IN  [i \in 1..k |->
            [kind |-> IF i % 2 = 1 THEN "Write" ELSE "WriteString",
             data |-> SubSeq(doc, (i - 1) * size + 1,
                             IF i = k THEN Len(doc) ELSE i * size)]]

\* the sequences of writes a handler may make
Plans ==
    { <<>> } \cup
    { Chunks(doc, k) : doc \in ResponseDocs \ { <<>> }, k \in 1..MaxChunks }

\* what the embedded writer may return for a write of data: all written,
\* or nothing written and an error
WriteResults(data) ==
    { [n |-> Len(data), err |-> FALSE], [n |-> 0, err |-> TRUE] }

(***************************************************************************)
(* The state machine: one request at a time goes through the middleware,   *)
(* the downstream handler (c.Next) and the middleware again.               *)
(***************************************************************************)
VARIABLES
    pc,           \* "idle", "handler", "writing", "done"
    entry,        \* the middleware installed for the request
    branch,       \* the branch of the middleware the request has taken
    req,          \* [path, method, sent, stream]: the request as it arrived
    body,         \* c.Request.Body
    requestBody,  \* the bytes the middleware has read from the body
    writer,       \* c.Writer
    under,        \* the calls the router's writer has received
    calls,        \* the calls the handler has made on c.Writer
    plan,         \* the writes the handler has still to make
    handlerSaw,   \* what the handler read from c.Request.Body
    nextCalls,    \* how many times c.Next() has been called
    log,          \* the records emitted through logMediaAccess
    debugLines,   \* the lines emitted through log.Debugf and log.Infof
    input,        \* the argument of the function under study
    output,       \* what the function under study returned
    once,         \* regexInitOnce: [done, m], m the goroutine holding its mutex
    patterns,     \* listApiRegex, getApiRegex, pathRegex: "nil" or "compiled"
    gpc,          \* the position of each goroutine calling initRegex
    initCount     \* how many times the function given to Do has been entered

vars == << pc, entry, branch, req, body, requestBody, writer, under, calls,
           plan, handlerSaw, nextCalls, log, debugLines, input, output, once,
           patterns, gpc, initCount >>

\* the state beside the request in hand: the debug output, and the
\* package-level state of the log line filter
aux == << debugLines, input, output, once, patterns, gpc, initCount >>

nilPatterns == [listApiRegex |-> "nil", getApiRegex |-> "nil", pathRegex |-> "nil"]

auxInit ==
    /\ debugLines = <<>>
    /\ input = <<>>
    /\ output = <<>>
    /\ once = [done |-> 0, m |-> 0]
    /\ patterns = nilPatterns
    /\ gpc = <<>>
    /\ initCount = 0

noRequest == [path |-> <<>>, method |-> "", sent |-> <<>>, stream |-> nilBody]
nothingSeen == [read |-> FALSE, data |-> <<>>, err |-> FALSE, off |-> 0]

Init ==
    /\ pc = "idle"
    /\ entry = "none"
    /\ branch = "none"
    /\ req = noRequest
    /\ body = nilBody
    /\ requestBody = <<>>
    /\ writer = ginWriter
    /\ under = <<>>
    /\ calls = <<>>
    /\ plan = <<>>
    /\ handlerSaw = nothingSeen
    /\ nextCalls = 0
    /\ log = <<>>
    /\ auxInit

\* MediaLoggerMiddleware up to its call of c.Next(): the branch is chosen;
\* handleFSListRequest and handleFSGetRequest capture the request body and
\* wrap the writer, the other branches touch neither.
MediaLoggerMiddlewareEnter(path, method, rb) ==
    LET b == Classify(path)
        stream == rb.stream
        cap == captureRequestBody(stream)
    IN  /\ pc = "idle"
        /\ pc' = "handler"
        /\ entry' = "MediaLoggerMiddleware"
        /\ branch' = b
        /\ req' = [path |-> path, method |-> method, sent |-> rb.sent,
                   stream |-> stream]
        /\ IF intercepts(b) /\ stream.src # "nil"
           THEN body' = cap.body /\ requestBody' = cap.requestBody
           ELSE body' = stream /\ requestBody' = <<>>
        /\ writer' = IF intercepts(b) THEN newResponseBodyWriter ELSE ginWriter
        /\ nextCalls' = nextCalls + 1
        /\ UNCHANGED << aux, under, calls, plan, handlerSaw, log >>

\* MediaLoggerWithDebug up to its call of c.Next()
MediaLoggerWithDebugEnter(path, method, rb) ==
    LET stream == rb.stream
        cap == captureRequestBody(stream)
    IN  /\ pc = "idle"
        /\ pc' = "handler"
        /\ entry' = "MediaLoggerWithDebug"
        /\ branch' = "Debug"
        /\ req' = [path |-> path, method |-> method, sent |-> rb.sent,
                   stream |-> stream]
        /\ IF stream.src # "nil" /\ method # "GET"
           THEN body' = cap.body /\ requestBody' = cap.requestBody
           ELSE body' = stream /\ requestBody' = <<>>
        /\ writer' = newResponseBodyWriter
        /\ nextCalls' = nextCalls + 1
        /\ UNCHANGED << aux, under, calls, plan, handlerSaw, log >>

\* The downstream handler starts: it reads the request body to its end and
\* decides what it will write.
HandlerBegin(p) ==
    /\ pc = "handler"
    /\ pc' = "writing"
    /\ plan' = p
    /\ IF body.src = "nil"
       THEN handlerSaw' = nothingSeen /\ body' = body
       ELSE LET r == ReadAll(body)
            IN  /\ handlerSaw' = [read |-> TRUE, data |-> r.data, err |-> r.err,
                                  off |-> body.off]
                /\ body' = r.body
    /\ UNCHANGED << aux, entry, branch, req, requestBody, writer, under, calls,
                    nextCalls, log >>

\* The handler makes its next write on c.Writer.
HandlerWrite(res) ==
    /\ pc = "writing"
    /\ plan # <<>>
    /\ LET call == Head(plan)
           out == writerCall(writer, under, call.kind, call.data, res)
       IN  /\ writer' = out.w
           /\ under' = out.under
           /\ calls' = Append(calls, Call(call.kind, call.data, out.ret))
    /\ plan' = Tail(plan)
    /\ UNCHANGED << aux, pc, entry, branch, req, body, requestBody, handlerSaw,
                    nextCalls, log >>

\* c.Next() returns, the handler having made all its writes or given up on
\* the rest, and the middleware runs to its end emitting records.
Finish(records) ==
    /\ pc = "writing"
    /\ pc' = "done"
    /\ plan' = <<>>
    /\ log' = log \o records
    /\ UNCHANGED << aux, entry, branch, req, body, requestBody, writer, under,
                    calls, handlerSaw, nextCalls >>

\* MediaLoggerMiddleware, ignored prefix or neither media nor list/get:
\* nothing follows c.Next()
PassThroughReturn ==
    /\ entry = "MediaLoggerMiddleware"
    /\ branch \in {"Ignored", "Other"}
    /\ Finish(<<>>)

\* DirectMediaReturn emitting its record while the handler chain has yet
\* to run
DirectMediaReturn_BeforeHandler ==
    /\ entry = "MediaLoggerMiddleware"
    /\ branch = "DirectMedia"
    /\ pc = "handler"
    /\ log = <<>>
    /\ log' = << Record("direct", req.path) >>
    /\ UNCHANGED << aux, pc, entry, branch, req, body, requestBody, writer,
                    under, calls, plan, handlerSaw, nextCalls >>

\* MediaLoggerMiddleware, isMediaFilePath(path): one record for the path
DirectMediaReturn ==
    /\ entry = "MediaLoggerMiddleware"
    /\ branch = "DirectMedia"
    /\ Finish(<< Record("direct", req.path) >>)

\* handleFSListRequest after c.Next(): one record per media file found
handleFSListRequestReturn ==
    /\ entry = "MediaLoggerMiddleware"
    /\ branch = "ListQuery"
    /\ LET mediaFiles == listMediaFiles(writer.body)
       IN  Finish([i \in 1..Len(mediaFiles) |-> Record("list", mediaFiles[i])])

\* handleFSGetRequest after c.Next()
handleFSGetRequestReturn ==
    /\ entry = "MediaLoggerMiddleware"
    /\ branch = "GetQuery"
    /\ LET mediaFiles == getMediaFiles(writer.body)
       IN  Finish([i \in 1..Len(mediaFiles) |-> Record("get", mediaFiles[i])])

\* MediaLoggerWithDebug after c.Next()
MediaLoggerWithDebugReturn ==
    /\ entry = "MediaLoggerWithDebug"
    /\ LET m == debugMedia(req.path, requestBody, writer.body)
       IN  Finish(IF m.isMedia THEN << Record("debug", m.mediaFilePath) >>
                               ELSE <<>>)

\* The request is over; the next one starts from a fresh context.
Complete ==
    /\ pc = "done"
    /\ pc' = "idle"
    /\ entry' = "none"
    /\ branch' = "none"
    /\ req' = noRequest
    /\ body' = nilBody
    /\ requestBody' = <<>>
    /\ writer' = ginWriter
    /\ under' = <<>>
    /\ calls' = <<>>
    /\ plan' = <<>>
    /\ handlerSaw' = nothingSeen
    /\ nextCalls' = 0
    /\ log' = <<>>
    /\ UNCHANGED aux

Next ==
    \/ \E path \in Paths, method \in Methods, rb \in RequestBodies :
          MediaLoggerMiddlewareEnter(path, method, rb)
    \/ \E path \in Paths, method \in Methods, rb \in RequestBodies :
          MediaLoggerWithDebugEnter(path, method, rb)
    \/ \E p \in Plans : HandlerBegin(p)
    \/ /\ plan # <<>>
       /\ \E res \in WriteResults(Head(plan).data) : HandlerWrite(res)
    \/ PassThroughReturn
    \/ DirectMediaReturn
    \/ handleFSListRequestReturn
    \/ handleFSGetRequestReturn
    \/ MediaLoggerWithDebugReturn
    \/ Complete

Spec == Init /\ [][Next]_vars

(***************************************************************************)
(* MediaLoggerMiddleware over every extension of the registry in every     *)
(* letter case.                                                            *)
(***************************************************************************)
UpperChar(c) ==
    IF \E i \in 1..26 : LowerChars[i] = c
    THEN UpperChars[CHOOSE i \in 1..26 : LowerChars[i] = c]
    ELSE c

\* the characters that strings.ToLower turns into c
Spellings(c) ==
    { c, UpperChar(c) }
    \cup { UpperOthers[i] : i \in { j \in 1..Len(UpperOthers) : LowerOthers[j] = c } }

\* every spelling of s that strings.ToLower turns into s
RECURSIVE Casings(_)
Casings(s) ==
    IF s = <<>> THEN { <<>> }
    ELSE UNION { { << c >> \o rest : rest \in Casings(Tail(s)) } :
                 c \in Spellings(Head(s)) }

\* /d/a<ext>, for every extension of the registry in every letter case
CasingPaths ==
    UNION { { pDir \o << "a" >> \o c : c \in Casings(ext) } :
            ext \in mediaExtensions }

PlansPaths ==
    { <<>>, Chunks(Encode(ListEnvelope(JNum(200), << Entry(nMp4, dirX) >>)), 1),
      Chunks(Encode(GetEnvelope(JNum(200), Entry(nMkv, dirY))), 1) }

NextPaths ==
    \/ \E path \in Paths \cup CasingPaths, method \in Methods :
          MediaLoggerMiddlewareEnter(path, method, [sent |-> <<>>, stream |-> nilBody])
    \/ \E p \in PlansPaths : HandlerBegin(p)
    \/ /\ plan # <<>>
       /\ \E res \in WriteResults(Head(plan).data) : HandlerWrite(res)
    \/ PassThroughReturn
    \/ DirectMediaReturn
    \/ handleFSListRequestReturn
    \/ handleFSGetRequestReturn
    \/ Complete

SpecPaths == Init /\ [][NextPaths]_vars

(***************************************************************************)
(* A responseBodyWriter on its own: any sequence of Write and WriteString  *)
(* calls, the embedded writer returning any result.                        *)
(***************************************************************************)
WriterChunks == { << Tok("{") >>, << TokStr(sCode), Tok(":") >> }

\* any (n, err) an io.Writer may return for data
AnyResults(data) == { [n |-> k, err |-> e] : k \in 0..Len(data), e \in BOOLEAN }

InitWriter ==
    /\ pc = "writer"
    /\ entry = "none"
    /\ branch = "none"
    /\ req = noRequest
    /\ body = nilBody
    /\ requestBody = <<>>
    /\ writer = newResponseBodyWriter
    /\ under = <<>>
    /\ calls = <<>>
    /\ plan = <<>>
    /\ handlerSaw = nothingSeen
    /\ nextCalls = 0
    /\ log = <<>>
    /\ auxInit

WriterWrite(b, res) ==
    /\ pc = "writer"
    /\ Len(calls) < MaxWrites
    /\ LET out == responseBodyWriterWrite(writer, under, b, res)
       IN  /\ writer' = out.w
           /\ under' = out.under
           /\ calls' = Append(calls, Call("Write", b, out.ret))
    /\ UNCHANGED << aux, pc, entry, branch, req, body, requestBody, plan,
                    handlerSaw, nextCalls, log >>

WriterWriteString(str, res) ==
    /\ pc = "writer"
    /\ Len(calls) < MaxWrites
    /\ LET out == responseBodyWriterWriteString(writer, under, str, res)
       IN  /\ writer' = out.w
           /\ under' = out.under
           /\ calls' = Append(calls, Call("WriteString", str, out.ret))
    /\ UNCHANGED << aux, pc, entry, branch, req, body, requestBody, plan,
                    handlerSaw, nextCalls, log >>

NextWriter ==
    \/ \E b \in WriterChunks : \E res \in AnyResults(b) : WriterWrite(b, res)
    \/ \E str \in WriterChunks : \E res \in AnyResults(str) :
          WriterWriteString(str, res)

SpecWriter == InitWriter /\ [][NextWriter]_vars

(***************************************************************************)
(* Properties.                                                             *)
(***************************************************************************)
\* the path ends in an extension of the registry, in any letter case
endsInMediaExt(path) ==
    \E ext \in mediaExtensions : HasSuffix(ToLower(path), ext)

ListOrGet(path) == Classify(path) \in {"ListQuery", "GetQuery"}

\* C1: a request whose path starts with an ignored prefix is never taken
\* for media and never has a record emitted for it, under MediaLoggerMiddleware
\* and under MediaLoggerWithDebug alike.
C1_IgnoredPrefixNeverLogged ==
    hasIgnoredPrefix(req.path) =>
        /\ log = <<>>
        /\ entry = "MediaLoggerMiddleware" => branch = "Ignored"

\* C2 as stated: under MediaLoggerMiddleware every request whose path ends
\* in an extension of the registry, in any letter case, takes the direct
\* media branch: the handler runs once and exactly one record, for the
\* request path, is emitted.
C2_EveryMediaPathDirect ==
    (entry = "MediaLoggerMiddleware" /\ endsInMediaExt(req.path)) =>
        /\ branch = "DirectMedia"
        /\ nextCalls = 1
        /\ log = IF pc = "done" THEN << Record("direct", req.path) >> ELSE <<>>

\* C2 amended: the same for every such path that starts with none of the
\* ignored prefixes.
C2_MediaPathDirectUnlessIgnored ==
    (/\ entry = "MediaLoggerMiddleware"
     /\ endsInMediaExt(req.path)
     /\ ~hasIgnoredPrefix(req.path)) =>
        /\ branch = "DirectMedia"
        /\ nextCalls = 1
        /\ log = IF pc = "done" THEN << Record("direct", req.path) >> ELSE <<>>

\* a request for /d/a.MkV has run to its end with its one record emitted
C2_Witness ==
    /\ pc = "done"
    /\ entry = "MediaLoggerMiddleware"
    /\ req.path = pDir \o << "a", ".", "M", "k", "V" >>
    /\ log = << Record("direct", req.path) >>

\* the member of a JSON object under a key (the last one, if the key comes
\* more than once), null if there is none or the value is no object
Field(v, name) ==
    LET at == { i \in 1..Len(v.keys) : ToLower(v.keys[i]) = name }
    IN  IF v.k # "obj" \/ at = {} THEN JNull
        ELSE v.kids[CHOOSE i \in at : \A j \in at : j <= i]

\* the elements of a JSON array, none if the value is no array
Elements(v) == IF v.k = "arr" THEN v.kids ELSE <<>>

\* the envelope carries the number n as its code
EnvelopeCodeIs(data, n) ==
    /\ jsonValid(data)
    /\ Field(jsonValue(data), sCode).k = "num"
    /\ Field(jsonValue(data), sCode).n = n

EnvelopeCodeIsNot(data, n) ==
    /\ jsonValid(data)
    /\ jsonValue(data).k = "obj"
    /\ Field(jsonValue(data), sCode).k = "num"
    /\ Field(jsonValue(data), sCode).n # n

\* the records the list envelope in data calls for: one for each entry of
\* the content it decodes to whose name ends in a registry extension, in
\* their order
ExpectedListRecords(data) ==
    LET items == unmarshalFsListResponse(data).val.Content
        named(it) == endsInMediaExt(it.Name)
        media == SelectSeq(items, named)
    IN  [i \in 1..Len(media) |->
            Record("list", media[i].Path \o <<"/">> \o media[i].Name)]

\* The later handleFSListRequest (lines 791-846) on its own: when the
\* response captured for a list request decodes without error as an envelope
\* of code 200, it emits one record for each content entry whose name has a
\* registry extension, all of them, in the order of the envelope, and none
\* when no entry has one.
C3_OneRecordPerMediaEntry ==
    (/\ pc = "done"
     /\ entry = "MediaLoggerMiddleware"
     /\ Classify(req.path) = "ListQuery"
     /\ Len(writer.body) > 0
     /\ ~unmarshalFsListResponse(writer.body).err
     /\ EnvelopeCodeIs(writer.body, 200)) =>
        log = ExpectedListRecords(writer.body)

\* a list request has ended with two records, in the order of the listing
C3_Witness ==
    /\ pc = "done"
    /\ entry = "MediaLoggerMiddleware"
    /\ Classify(req.path) = "ListQuery"
    /\ ~unmarshalFsListResponse(writer.body).err
    /\ log = << Record("list", dirY \o <<"/">> \o nMkv),
                Record("list", dirX \o <<"/">> \o nMp4) >>

\* C4: a request to the list or the get endpoint whose response envelope
\* has a code other than 200 has no record emitted for it, whatever the
\* envelope and the request body hold, under MediaLoggerMiddleware and under
\* MediaLoggerWithDebug alike.
C4_NoRecordUnlessCode200 ==
    (/\ pc = "done"
     /\ ListOrGet(req.path)
     /\ EnvelopeCodeIsNot(writer.body, 200)) =>
        log = <<>>

\* the decode of the captured response, as the branch makes it, fails
DecodeFails ==
    /\ Len(writer.body) > 0
    /\ \/ branch = "ListQuery" /\ unmarshalFsListResponse(writer.body).err
       \/ branch = "GetQuery" /\ unmarshalFsGetResponse(writer.body).err

\* C5: when the decode of the captured response fails in handleFSListRequest
\* or handleFSGetRequest (no JSON, JSON cut short, or a field of the wrong
\* type), no record is emitted: what a decode that failed part-way has
\* filled in is never used.
C5_NoRecordWhenDecodeFails ==
    (pc = "done" /\ entry = "MediaLoggerMiddleware" /\ DecodeFails) =>
        log = <<>>

\* C6: when the response captured for a get request decodes without error
\* as an envelope of code 200 whose data.name has a registry extension,
\* handleFSGetRequest emits exactly one record, for data.path if that is not
\* empty and for data.name if it is.
C6_GetRecordPathOrName ==
    LET data == Field(jsonValue(writer.body), sData)
        name == Field(data, sName).s
        path == Field(data, sPath).s
    IN  (/\ pc = "done"
         /\ entry = "MediaLoggerMiddleware"
         /\ Classify(req.path) = "GetQuery"
         /\ Len(writer.body) > 0
         /\ ~unmarshalFsGetResponse(writer.body).err
         /\ EnvelopeCodeIs(writer.body, 200)
         /\ endsInMediaExt(name)) =>
            log = << Record("get", IF path # <<>> THEN path ELSE name) >>

\* C7: on a list or get request with a body, the handler finds the body
\* unread and reads from it exactly the bytes the client sent, also when the
\* read of the original body ended with an error part-way.
C7_HandlerReadsWhatWasSent ==
    (/\ pc \in {"writing", "done"}
     /\ entry = "MediaLoggerMiddleware"
     /\ ListOrGet(req.path)
     /\ req.stream.src # "nil") =>
        /\ handlerSaw.read
        /\ handlerSaw.off = 0
        /\ handlerSaw.data = req.sent

\* nothing of the request is captured: the body is the stream of the
\* connection, read by nobody but the handler, the writer is the router's,
\* and no byte is buffered
Untouched ==
    /\ ~writer.wrapped
    /\ writer.body = <<>>
    /\ requestBody = <<>>
    /\ body.src = req.stream.src
    /\ pc = "handler" => body = req.stream
    /\ handlerSaw.read => handlerSaw.off = 0 /\ handlerSaw.err = req.stream.fail
    /\ under = calls

\* C8 as stated: under either entry point, a request that is neither a list
\* nor a get request is handled with the original body and writer.
C8_CaptureOnlyForListAndGet ==
    (pc \in {"handler", "writing", "done"} /\ ~ListOrGet(req.path)) => Untouched

\* C8 amended: that holds under MediaLoggerMiddleware; MediaLoggerWithDebug
\* wraps the writer for every request and captures the body of every
\* request that has one and whose method is not GET.
C8_CaptureOnlyForListAndGetInMiddleware ==
    pc \in {"handler", "writing", "done"} =>
        /\ (entry = "MediaLoggerMiddleware" /\ ~ListOrGet(req.path)) => Untouched
        /\ entry = "MediaLoggerWithDebug" =>
              /\ writer.wrapped
              /\ body.src = "copy" <=>
                    (req.stream.src # "nil" /\ req.method # "GET")

\* a direct media request with a body has run to its end under
\* MediaLoggerMiddleware, the handler having read the body and written
C8_Witness ==
    /\ pc = "done"
    /\ entry = "MediaLoggerMiddleware"
    /\ Classify(req.path) = "DirectMedia"
    /\ handlerSaw.read
    /\ handlerSaw.data # <<>>
    /\ calls # <<>>
    /\ Untouched

\* C9: a request that is under no ignored prefix, is no media path and is
\* neither the list nor the get endpoint never has a record emitted for it,
\* under MediaLoggerMiddleware and under MediaLoggerWithDebug alike.
C9_OtherNeverLogged ==
    (pc = "done" /\ Classify(req.path) = "Other") => log = <<>>

RECURSIVE ConcatData(_)
ConcatData(cs) ==
    IF cs = <<>> THEN <<>> ELSE Head(cs).data \o ConcatData(Tail(cs))

\* C10: after any sequence of Write and WriteString calls on a
\* responseBodyWriter the embedded writer has received the same calls with
\* the same bytes in the same order, every call has returned what the
\* embedded writer returned for it, and the buffer holds the bytes of all
\* the calls in their order.
C10_WriterForwardsAndCaptures ==
    writer.wrapped =>
        /\ under = calls
        /\ writer.body = ConcatData(calls)

\* MaxWrites calls of both kinds have been made, one of them failed and one
\* was short
C10_Witness ==
    /\ writer.wrapped
    /\ Len(calls) = MaxWrites
    /\ \E i, j \in 1..Len(calls) :
          calls[i].kind = "Write" /\ calls[j].kind = "WriteString"
    /\ \E i \in 1..Len(calls) : calls[i].err
    /\ \E i \in 1..Len(calls) : calls[i].n < Len(calls[i].data)
    /\ writer.body # <<>>

\* the embedded writer has failed a write of the handler, or taken fewer
\* bytes than it was given
SomeWriteFailed ==
    \E i \in 1..Len(calls) : calls[i].err \/ calls[i].n < Len(calls[i].data)

\* C11: when the embedded writer returns an error or a short write for some
\* write of a list or get request, the bytes captured so far are dropped
\* without being decoded and no record is emitted for the request.
C11_NoRecordAfterWriteError ==
    (/\ pc = "done"
     /\ entry = "MediaLoggerMiddleware"
     /\ ListOrGet(req.path)
     /\ SomeWriteFailed) =>
        log = <<>>

(***************************************************************************)
(* The earlier MediaLoggerWithDebug (log_filter.go, lines 503-601), which  *)
(* looks for extensions anywhere in the bodies and writes the request and  *)
(* the response of a media access to the debug log.  Bodies are character  *)
(* strings here, and the request has no query string.                      *)
(***************************************************************************)
\* the length from which the response body is cut in the debug log
TruncateAt == 1000
\* response bodies are up to TruncateAt + MaxOver characters long
MaxOver == 2

Digits == << "0", "1", "2", "3", "4", "5", "6", "7", "8", "9" >>

\* a body of n characters: head, then digits that tell their position
Filler(head, n) ==
    [i \in 1..n |-> IF i <= Len(head) THEN head[i] ELSE Digits[(i % 10) + 1]]

DebugBodyLengths == {0, 1, TruncateAt - 1} \cup (TruncateAt .. (TruncateAt + MaxOver))

\* the responses the handler writes: with and without a media file name
DebugBodies == { Filler(h, n) : h \in { <<>>, nMp4 }, n \in DebugBodyLengths }

DebugPlans ==
    { <<>> } \cup
    { Chunks(doc, k) : doc \in DebugBodies \ { <<>> }, k \in 1..MaxChunks }

DebugPaths == { pDir \o nMp4, pDir \o nTxt }

DebugRequestBodies ==
    { [sent |-> <<>>, stream |-> nilBody] }
    \cup { [sent |-> d, stream |-> Stream(d, Len(d))] : d \in { nTxt, nMkv } }

\* a line of the debug log: which format it has, the text put into it, the
\* length printed in front of the text (-1 if the format has none), and
\* whether "..." follows the text
DebugLine(tag, text, length, marker) ==
    [tag |-> tag, text |-> text, length |-> length, marker |-> marker]

\* for ext := range mediaExtensions { strings.Contains(lower, ext) }
containsMediaExtension(data) ==
    \E ext \in mediaExtensions : Contains(ToLower(data), ext)

\* the lines written for the response body of a media access
debugResponseBody(responseData) ==
    IF Len(responseData) > 0 /\ Len(responseData) < TruncateAt
    THEN << DebugLine("responseBody", responseData, -1, FALSE) >>
    ELSE IF Len(responseData) >= TruncateAt
         THEN << DebugLine("responseBody", SubSeq(responseData, 1, TruncateAt),
                           Len(responseData), TRUE) >>
         ELSE <<>>

\* the earlier MediaLoggerWithDebug up to its call of c.Next()
MediaLoggerWithDebugLinesEnter(path, method, rb) ==
    LET stream == rb.stream
        cap == captureRequestBody(stream)
        captured == stream.src # "nil" /\ method # "GET"
        rbody == IF captured THEN cap.requestBody ELSE <<>>
    IN  /\ pc = "idle"
        /\ pc' = "handler"
        /\ entry' = "MediaLoggerWithDebug"
        /\ branch' = "DebugLines"
        /\ req' = [path |-> path, method |-> method, sent |-> rb.sent,
                   stream |-> stream]
        /\ body' = IF captured THEN cap.body ELSE stream
        /\ requestBody' = rbody
        /\ debugLines' =
              << DebugLine("request", path, -1, FALSE) >>
              \o (IF Len(rbody) > 0
                  THEN << DebugLine("requestBody", rbody, -1, FALSE) >>
                  ELSE <<>>)
        /\ writer' = newResponseBodyWriter
        /\ nextCalls' = nextCalls + 1
        /\ UNCHANGED << under, calls, plan, handlerSaw, log, input, output,
                        once, patterns, gpc, initCount >>

\* the earlier MediaLoggerWithDebug after c.Next()
MediaLoggerWithDebugLinesReturn ==
    LET responseData == writer.body
        isMedia ==
            \/ isMediaFilePath(req.path)
            \/ Len(requestBody) > 0 /\ containsMediaExtension(requestBody)
            \/ Len(responseData) > 0 /\ containsMediaExtension(responseData)
    IN  /\ pc = "writing"
        /\ branch = "DebugLines"
        /\ pc' = "done"
        /\ plan' = <<>>
        /\ debugLines' =
              debugLines \o
              (IF isMedia
               THEN << DebugLine("mediaAccess", req.path, -1, FALSE),
                       DebugLine("response", <<>>, -1, FALSE) >>
                    \o debugResponseBody(responseData)
               ELSE << DebugLine("response", req.path, -1, FALSE) >>)
        /\ UNCHANGED << entry, branch, req, body, requestBody, writer, under,
                        calls, handlerSaw, nextCalls, log, input, output,
                        once, patterns, gpc, initCount >>

NextDebugLines ==
    \/ \E path \in DebugPaths, method \in Methods, rb \in DebugRequestBodies :
          MediaLoggerWithDebugLinesEnter(path, method, rb)
    \/ \E p \in DebugPlans : HandlerBegin(p)
    \/ /\ plan # <<>>
       /\ \E res \in WriteResults(Head(plan).data) : HandlerWrite(res)
    \/ MediaLoggerWithDebugLinesReturn

SpecDebugLines == Init /\ [][NextDebugLines]_vars

\* the lines of the debug log that show the response body
ResponseBodyLines ==
    LET shows(l) == l.tag = "responseBody" IN SelectSeq(debugLines, shows)

\* C12: when MediaLoggerWithDebug has logged a request as a media access and
\* captured a response body that is not empty, the debug log shows the body
\* once: its first TruncateAt characters followed by the truncation marker
\* if it is longer than TruncateAt, and the whole body without the marker if
\* it is not, a body of exactly TruncateAt characters included.
C12_BodyCutOnlyAboveThreshold ==
    (/\ pc = "done"
     /\ branch = "DebugLines"
     /\ \E i \in 1..Len(debugLines) : debugLines[i].tag = "mediaAccess"
     /\ Len(writer.body) > 0) =>
        /\ Len(ResponseBodyLines) = 1
        /\ IF Len(writer.body) > TruncateAt
           THEN /\ ResponseBodyLines[1].text = SubSeq(writer.body, 1, TruncateAt)
                /\ ResponseBodyLines[1].marker
           ELSE /\ ResponseBodyLines[1].text = writer.body
                /\ ~ResponseBodyLines[1].marker

(***************************************************************************)
(* initRegex (log_filter.go, lines 64-81): goroutines race for the first   *)
(* call.  regexInitOnce is a sync.Once: Do looks at done, and if it is 0   *)
(* takes the mutex, looks at done again, runs the function if it is still  *)
(* 0, stores 1 into done and releases the mutex.                           *)
(***************************************************************************)
\* the goroutines that call initRegex
NumGoroutines == 3

Goroutines == 1..NumGoroutines

compiledPatterns ==
    [listApiRegex |-> "compiled", getApiRegex |-> "compiled", pathRegex |-> "compiled"]

\* no request is in hand
noRequestInHand ==
    /\ pc = "idle"
    /\ entry = "none"
    /\ branch = "none"
    /\ req = noRequest
    /\ body = nilBody
    /\ requestBody = <<>>
    /\ writer = ginWriter
    /\ under = <<>>
    /\ calls = <<>>
    /\ plan = <<>>
    /\ handlerSaw = nothingSeen
    /\ nextCalls = 0
    /\ log = <<>>

requestVars == << pc, entry, branch, req, body, requestBody, writer, under,
                  calls, plan, handlerSaw, nextCalls, log >>

InitOnce ==
    /\ noRequestInHand
    /\ debugLines = <<>>
    /\ input = <<>>
    /\ output = [g \in Goroutines |-> [read |-> FALSE, seen |-> nilPatterns]]
    /\ once = [done |-> 0, m |-> 0]
    /\ patterns = nilPatterns
    /\ gpc = [g \in Goroutines |-> [at |-> "call", slow |-> FALSE]]
    /\ initCount = 0

\* doSlow without its second look at done
onceMustRun_NoSecondLook(o) == TRUE

\* doSlow, the mutex held: the function runs if done is still 0
onceMustRun(o) == o.done = 0

\* Do: if o.done.Load() == 0 { o.doSlow(f) }
onceDo(g) ==
    /\ gpc[g].at = "call"
    /\ gpc' = [gpc EXCEPT ![g] = IF once.done = 0
                                 THEN [at |-> "lock", slow |-> TRUE]
                                 ELSE [at |-> "read", slow |-> FALSE]]
    /\ UNCHANGED << requestVars, debugLines, input, output, once, patterns,
                    initCount >>

\* doSlow: o.m.Lock()
onceLock(g) ==
    /\ gpc[g].at = "lock"
    /\ once.m = 0
    /\ once' = [once EXCEPT !.m = g]
    /\ gpc' = [gpc EXCEPT ![g].at = "look"]
    /\ UNCHANGED << requestVars, debugLines, input, output, patterns, initCount >>

\* doSlow: if o.done.Load() == 0 { defer o.done.Store(1); f() }
onceLook(g) ==
    /\ gpc[g].at = "look"
    /\ IF onceMustRun(once)
       THEN /\ gpc' = [gpc EXCEPT ![g].at = "list"]
            /\ initCount' = initCount + 1
       ELSE /\ gpc' = [gpc EXCEPT ![g].at = "unlock"]
            /\ initCount' = initCount
    /\ UNCHANGED << requestVars, debugLines, input, output, once, patterns >>

\* listApiRegex = regexp.MustCompile(...)
initListApiRegex(g) ==
    /\ gpc[g].at = "list"
    /\ patterns' = [patterns EXCEPT !.listApiRegex = "compiled"]
    /\ gpc' = [gpc EXCEPT ![g].at = "get"]
    /\ UNCHANGED << requestVars, debugLines, input, output, once, initCount >>

\* getApiRegex = regexp.MustCompile(...)
initGetApiRegex(g) ==
    /\ gpc[g].at = "get"
    /\ patterns' = [patterns EXCEPT !.getApiRegex = "compiled"]
    /\ gpc' = [gpc EXCEPT ![g].at = "path"]
    /\ UNCHANGED << requestVars, debugLines, input, output, once, initCount >>

\* pathRegex = regexp.MustCompile(...)
initPathRegex(g) ==
    /\ gpc[g].at = "path"
    /\ patterns' = [patterns EXCEPT !.pathRegex = "compiled"]
    /\ gpc' = [gpc EXCEPT ![g].at = "store"]
    /\ UNCHANGED << requestVars, debugLines, input, output, once, initCount >>

\* the deferred o.done.Store(1)
onceStore(g) ==
    /\ gpc[g].at = "store"
    /\ once' = [once EXCEPT !.done = 1]
    /\ gpc' = [gpc EXCEPT ![g].at = "unlock"]
    /\ UNCHANGED << requestVars, debugLines, input, output, patterns, initCount >>

\* the deferred o.m.Unlock(); initRegex returns
onceUnlock(g) ==
    /\ gpc[g].at = "unlock"
    /\ once' = [once EXCEPT !.m = 0]
    /\ gpc' = [gpc EXCEPT ![g].at = "read"]
    /\ UNCHANGED << requestVars, debugLines, input, output, patterns, initCount >>

\* the caller of initRegex goes on to use the pattern variables
usePatterns(g) ==
    /\ gpc[g].at = "read"
    /\ output' = [output EXCEPT ![g] = [read |-> TRUE, seen |-> patterns]]
    /\ gpc' = [gpc EXCEPT ![g].at = "returned"]
    /\ UNCHANGED << requestVars, debugLines, input, once, patterns, initCount >>

NextOnce ==
    \/ \E g \in Goroutines : onceDo(g)
    \/ \E g \in Goroutines : onceLock(g)
    \/ \E g \in Goroutines : onceLook(g)
    \/ \E g \in Goroutines : initListApiRegex(g)
    \/ \E g \in Goroutines : initGetApiRegex(g)
    \/ \E g \in Goroutines : initPathRegex(g)
    \/ \E g \in Goroutines : onceStore(g)
    \/ \E g \in Goroutines : onceUnlock(g)
    \/ \E g \in Goroutines : usePatterns(g)

SpecOnce == InitOnce /\ [][NextOnce]_vars

\* C13: with the goroutines racing for the first call of initRegex, the
\* function given to Do is entered at most once; a goroutine is past its
\* call of initRegex only when that one run has stored all three patterns;
\* and no goroutine has read a pattern variable that was nil.
C13_InitRegexRunsOnce ==
    /\ initCount <= 1
    /\ \A g \in Goroutines :
          /\ gpc[g].at \in {"read", "returned"} =>
                /\ initCount = 1
                /\ once.done = 1
                /\ patterns = compiledPatterns
          /\ output[g].read => output[g].seen = compiledPatterns

\* every goroutine has returned and used the patterns, and all of them had
\* found done at 0 and gone for the mutex
C13_Witness ==
    /\ \A g \in Goroutines :
          gpc[g] = [at |-> "returned", slow |-> TRUE] /\ output[g].read
    /\ initCount = 1

(***************************************************************************)
(* getUserName (log_filter.go, lines 694-721).  The value the context      *)
(* holds under "user" is [exists, type, isNil, Username, keys, vals]: type *)
(* is its dynamic type, Username the field of a *model.User, keys and vals *)
(* the entries of a map[string]interface{}, a value being [str, s] with    *)
(* str telling whether it is a string.                                     *)
(***************************************************************************)
sUsername == << "u","s","e","r","n","a","m","e" >>
sBearer   == << "B","e","a","r","e","r"," " >>

\* the two placeholders returned at lines 714 and 718 (Chinese texts in the
\* source), each written here as a string of one symbol
sAuthenticatedUser == << "authenticated-user" >>
sUnknownUser       == << "unknown-user" >>

nameBob == << "b","o","b" >>
nameAl  == << "a","l" >>

UserObj(exists, type, isNil, username, keys, vals) ==
    [exists |-> exists, type |-> type, isNil |-> isNil, Username |-> username,
     keys |-> keys, vals |-> vals]

StrVal(s) == [str |-> TRUE, s |-> s]
IntVal    == [str |-> FALSE, s |-> <<>>]

\* what c.Get("user") may yield
UserObjs ==
    { UserObj(FALSE, "none", TRUE, <<>>, <<>>, <<>>),
      UserObj(TRUE, "nil", TRUE, <<>>, <<>>, <<>>),
      UserObj(TRUE, "*model.User", TRUE, <<>>, <<>>, <<>>),
      UserObj(TRUE, "model.User", FALSE, nameBob, <<>>, <<>>),
      UserObj(TRUE, "string", FALSE, <<>>, <<>>, <<>>) }
    \cup { UserObj(TRUE, "*model.User", FALSE, n, <<>>, <<>>) :
             n \in { nameBob, nameAl, <<>> } }
    \cup { UserObj(TRUE, "map", FALSE, <<>>, ks, vs) :
             ks \in { << sUsername >>, << << "U" >> \o Tail(sUsername) >> },
             vs \in { << StrVal(nameBob) >>, << StrVal(<<>>) >>, << IntVal >> } }
    \cup { UserObj(TRUE, "map", FALSE, <<>>, <<>>, <<>>),
           UserObj(TRUE, "map", FALSE, <<>>, << sPath, sUsername >>,
                   << StrVal(dirX), StrVal(nameAl) >>) }

\* what c.GetHeader("Authorization") may yield
AuthHeaders ==
    { <<>>,
      sBearer,
      sBearer \o << "t","1" >>,
      sBearer \o << "!" >>,
      << "b" >> \o Tail(sBearer) \o << "t","1" >>,
      << "B","e","a","r","e","r" >>,
      << "B","a","s","i","c"," ","t","1" >>,
      << " " >> \o sBearer \o << "t","1" >> }

UserContexts == { [user |-> u, authHeader |-> h] : u \in UserObjs, h \in AuthHeaders }

\* userMap["username"]: the value and whether the key is there
mapLookup(u, key) ==
    LET at == { i \in 1..Len(u.keys) : u.keys[i] = key }
    IN  IF at = {} THEN [exists |-> FALSE, val |-> IntVal]
        ELSE [exists |-> TRUE, val |-> u.vals[CHOOSE i \in at : TRUE]]

\* getUserName asking the Authorization header before the context
getUserName_HeaderFirst(c) ==
    IF HasPrefix(c.authHeader, sBearer) THEN sAuthenticatedUser
    ELSE IF c.user.exists /\ c.user.type = "*model.User" /\ ~c.user.isNil
         THEN c.user.Username
         ELSE sUnknownUser

getUserName(c) ==
    LET userObj == c.user
        username == mapLookup(userObj, sUsername)
    IN  IF userObj.exists /\ userObj.type = "*model.User" /\ ~userObj.isNil
        THEN userObj.Username
        ELSE IF /\ userObj.exists
                /\ userObj.type = "map"
                /\ username.exists
                /\ username.val.str
             THEN username.val.s
             ELSE IF HasPrefix(c.authHeader, sBearer)
                  THEN sAuthenticatedUser
                  ELSE sUnknownUser

InitUser ==
    /\ noRequestInHand
    /\ debugLines = <<>>
    /\ input \in UserContexts
    /\ output = [returned |-> FALSE, name |-> <<>>]
    /\ once = [done |-> 0, m |-> 0]
    /\ patterns = nilPatterns
    /\ gpc = <<>>
    /\ initCount = 0

\* username := getUserName(c)
getUserNameCall ==
    /\ ~output.returned
    /\ output' = [returned |-> TRUE, name |-> getUserName(input)]
    /\ UNCHANGED << requestVars, debugLines, input, once, patterns, gpc, initCount >>

\* the next request comes with another context
getUserNameNext(c) ==
    /\ output.returned
    /\ input' = c
    /\ output' = [returned |-> FALSE, name |-> <<>>]
    /\ UNCHANGED << requestVars, debugLines, once, patterns, gpc, initCount >>

NextUser ==
    \/ getUserNameCall
    \/ \E c \in UserContexts : getUserNameNext(c)

SpecUser == InitUser /\ [][NextUser]_vars

\* the context holds a principal: a *model.User that is not nil, or a map
\* with a string under "username"
HasPrincipal(c) ==
    /\ c.user.exists
    /\ \/ c.user.type = "*model.User" /\ ~c.user.isNil
       \/ /\ c.user.type = "map"
          /\ \E i \in 1..Len(c.user.keys) :
                c.user.keys[i] = sUsername /\ c.user.vals[i].str

PrincipalName(c) ==
    IF c.user.type = "*model.User" THEN c.user.Username
    ELSE c.user.vals[CHOOSE i \in 1..Len(c.user.keys) : c.user.keys[i] = sUsername].s

\* C14: getUserName returns for every context: the username of the
\* principal held under "user" if there is one; if there is none, the
\* placeholder for an authenticated user when the Authorization header
\* starts with "Bearer ", and the placeholder for an unknown user when it
\* does not.  What follows "Bearer " in the header makes no difference.
C14_UserNameOrPlaceholder ==
    /\ ~output.returned => ENABLED getUserNameCall
    /\ output.returned =>
          /\ output.name =
                IF HasPrincipal(input) THEN PrincipalName(input)
                ELSE IF HasPrefix(input.authHeader, sBearer)
                     THEN sAuthenticatedUser
                     ELSE sUnknownUser
          /\ HasPrefix(input.authHeader, sBearer) =>
                \A h \in AuthHeaders :
                   HasPrefix(h, sBearer) =>
                      getUserName([input EXCEPT !.authHeader = h]) = output.name

\* getUserName has returned the placeholder for an authenticated user for a
\* context whose "user" is a nil *model.User and whose header carries a
\* token after "Bearer "
C14_Witness ==
    /\ output.returned
    /\ input.user.exists
    /\ input.user.type = "*model.User"
    /\ input.user.isNil
    /\ input.authHeader = sBearer \o << "t","1" >>
    /\ output.name = sAuthenticatedUser

(***************************************************************************)
(* LoggerFilterWriter (log_filter.go, lines 14-127): the writer put in     *)
(* front of the log output, which passes or drops each rendered line.      *)
(* The three patterns are matched character by character.                  *)
(***************************************************************************)
\* var supportedExtensions: the same extensions as the later registry
supportedExtensions == mediaExtensions

\* getMediaExtensions(): the extensions without their dot
getMediaExtensions == { Tail(ext) : ext \in supportedExtensions }

sGin     == << "[", "G", "I", "N", "]" >>
sPost    == << "P", "O", "S", "T" >>
sQuote   == << "\"" >>

\* \s of regexp
isSpace(c) == c \in { " ", "\t", "\n", "\r", "\f" }

\* POST\s+"<path>" somewhere in s
matchPostOf(s, path) ==
    \E i \in 1..Len(s), j \in 1..Len(s) :
       /\ i + Len(sPost) <= j
       /\ SubSeq(s, i, i + Len(sPost) - 1) = sPost
       /\ \A k \in (i + Len(sPost))..j : isSpace(s[k])
       /\ HasPrefix(SubSeq(s, j + 1, Len(s)), sQuote \o path \o sQuote)

\* listApiRegex.MatchString(s)
listApiRegexMatch(s) == matchPostOf(s, sApiList)

\* getApiRegex.MatchString(s)
getApiRegexMatch(s) == matchPostOf(s, sApiGet)

\* pathRegex "([^"]+\.(jpg|jpeg|...))" finds something in s: two quotes
\* with no quote between them, and between them one character or more
\* followed by a dot and an extension
pathRegexMatch(s) ==
    \E i \in 1..Len(s), j \in 1..Len(s) :
       /\ i < j
       /\ s[i] = "\"" /\ s[j] = "\""
       /\ \A k \in (i + 1)..(j - 1) : s[k] # "\""
       /\ \E e \in getMediaExtensions :
             /\ HasSuffix(SubSeq(s, i + 1, j - 1), << "." >> \o e)
             /\ j - i - 1 > Len(e) + 1

\* whether LoggerFilterWriter.Write hands the line to its Writer
filterForwards(logLine) ==
    IF Contains(logLine, sGin)
    THEN IF listApiRegexMatch(logLine) \/ getApiRegexMatch(logLine)
         THEN pathRegexMatch(logLine)
         ELSE ~ (\/ Contains(logLine, sAssets)
                 \/ Contains(logLine, sImages)
                 \/ Contains(logLine, sFavicon))
    ELSE TRUE

\* [GIN] POST "/api/fs/list" "/x/a.mp4"
lineListMedia ==
    << "[", "G", "I", "N", "]", " ", "P", "O", "S", "T", " ", "\"", "/",
       "a", "p", "i", "/", "f", "s", "/", "l", "i", "s", "t", "\"", " ",
       "\"", "/", "x", "/", "a", ".", "m", "p", "4", "\"" >>
\* [GIN] POST "/api/fs/list" "/x"
lineListNoMedia ==
    << "[", "G", "I", "N", "]", " ", "P", "O", "S", "T", " ", "\"", "/",
       "a", "p", "i", "/", "f", "s", "/", "l", "i", "s", "t", "\"", " ",
       "\"", "/", "x", "\"" >>
\* [GIN] POST<TAB> "/api/fs/get" "/x/a.MP4"
lineGetUpper ==
    << "[", "G", "I", "N", "]", " ", "P", "O", "S", "T", "\t", " ", "\"",
       "/", "a", "p", "i", "/", "f", "s", "/", "g", "e", "t", "\"", " ",
       "\"", "/", "x", "/", "a", ".", "M", "P", "4", "\"" >>
\* [GIN] POST "/api/fs/get" ".png"
lineGetBareExt ==
    << "[", "G", "I", "N", "]", " ", "P", "O", "S", "T", " ", "\"", "/",
       "a", "p", "i", "/", "f", "s", "/", "g", "e", "t", "\"", " ", "\"",
       ".", "p", "n", "g", "\"" >>
\* [GIN] GET "/assets/app.js"
lineAsset ==
    << "[", "G", "I", "N", "]", " ", "G", "E", "T", " ", "\"", "/", "a",
       "s", "s", "e", "t", "s", "/", "a", "p", "p", ".", "j", "s", "\"" >>
\* [GIN] GET "/images/b.png"
lineImage ==
    << "[", "G", "I", "N", "]", " ", "G", "E", "T", " ", "\"", "/", "i",
       "m", "a", "g", "e", "s", "/", "b", ".", "p", "n", "g", "\"" >>
\* [GIN] GET "/favicon.ico"
lineFavicon ==
    << "[", "G", "I", "N", "]", " ", "G", "E", "T", " ", "\"", "/", "f",
       "a", "v", "i", "c", "o", "n", ".", "i", "c", "o", "\"" >>
\* [GIN] GET "/d/a.mp4"
lineDirectMedia ==
    << "[", "G", "I", "N", "]", " ", "G", "E", "T", " ", "\"", "/", "d",
       "/", "a", ".", "m", "p", "4", "\"" >>
\* [GIN] GET "/d/a.txt"
lineDirectText ==
    << "[", "G", "I", "N", "]", " ", "G", "E", "T", " ", "\"", "/", "d",
       "/", "a", ".", "t", "x", "t", "\"" >>
\* [GIN] GET "/api/me"
lineApiMe ==
    << "[", "G", "I", "N", "]", " ", "G", "E", "T", " ", "\"", "/", "a",
       "p", "i", "/", "m", "e", "\"" >>
\* [GIN] GET "/api/fs/list"
lineListByGet ==
    << "[", "G", "I", "N", "]", " ", "G", "E", "T", " ", "\"", "/", "a",
       "p", "i", "/", "f", "s", "/", "l", "i", "s", "t", "\"" >>
\* [GIN] POST /api/fs/list
lineListUnquoted ==
    << "[", "G", "I", "N", "]", " ", "P", "O", "S", "T", " ", "/", "a",
       "p", "i", "/", "f", "s", "/", "l", "i", "s", "t" >>
\* listening on :5244
linePlain ==
    << "l", "i", "s", "t", "e", "n", "i", "n", "g", " ", "o", "n", " ",
       ":", "5", "2", "4", "4" >>
\* open /d/a.mp4
linePlainMedia ==
    << "o", "p", "e", "n", " ", "/", "d", "/", "a", ".", "m", "p", "4" >>
\* [GIN] GET "/d/b.MKV"
lineDirectUpper ==
    << "[", "G", "I", "N", "]", " ", "G", "E", "T", " ", "\"", "/", "d",
       "/", "b", ".", "M", "K", "V", "\"" >>
\* [GIN] POST "/api/fs/get" "/assets/a.png"
lineGetAssetMedia ==
    << "[", "G", "I", "N", "]", " ", "P", "O", "S", "T", " ", "\"", "/",
       "a", "p", "i", "/", "f", "s", "/", "g", "e", "t", "\"", " ", "\"",
       "/", "a", "s", "s", "e", "t", "s", "/", "a", ".", "p", "n", "g",
       "\"" >>
\* GET "/assets/app.js"
linePlainAsset ==
    << "G", "E", "T", " ", "\"", "/", "a", "s", "s", "e", "t", "s", "/",
       "a", "p", "p", ".", "j", "s", "\"" >>

\* the lines the logger renders
LogLines ==
    { <<>>, lineListMedia, lineListNoMedia, lineGetUpper, lineGetBareExt, lineAsset, lineImage, lineFavicon, lineDirectMedia,
      lineDirectText, lineApiMe, lineListByGet, lineListUnquoted,
      linePlain, linePlainMedia,
      lineDirectUpper, lineGetAssetMedia, linePlainAsset }

\* what the Writer behind the filter may return for p
FilterResults(p) ==
    { [n |-> k, err |-> e] : k \in { 0, 1, Len(p) } \cap (0..Len(p)), e \in BOOLEAN }

\* the goroutines that use the filter at the same time
NumWriters == 2

Writers == 1..NumWriters

\* what Write does with the line once initRegex has returned, the pattern
\* variables being pats: a nil pattern makes MatchString or
\* FindStringSubmatch panic
filterOutcome(logLine, pats) ==
    IF ~Contains(logLine, sGin) THEN "forward"
    ELSE IF pats.listApiRegex = "nil" \/ pats.getApiRegex = "nil" THEN "panic"
    ELSE IF listApiRegexMatch(logLine) \/ getApiRegexMatch(logLine)
         THEN IF pats.pathRegex = "nil" THEN "panic"
              ELSE IF pathRegexMatch(logLine) THEN "forward" ELSE "suppress"
    ELSE IF filterForwards(logLine) THEN "forward" ELSE "suppress"

noCall == [fn |-> "none", p |-> <<>>]
noResult == [returned |-> FALSE, n |-> 0, err |-> FALSE, panicked |-> FALSE,
             wrote |-> <<>>]

InitFilter ==
    /\ noRequestInHand
    /\ debugLines = <<>>
    /\ input = [g \in Writers |-> noCall]
    /\ output = [g \in Writers |-> noResult]
    /\ once = [done |-> 0, m |-> 0]
    /\ patterns = nilPatterns
    /\ gpc = [g \in Writers |-> [at |-> "idle", slow |-> FALSE]]
    /\ initCount = 0

\* goroutine g enters LoggerFilterWriter.Write(p) and comes to its call of
\* initRegex
LoggerFilterWriterWriteCall(g, p) ==
    /\ gpc[g].at = "idle"
    /\ gpc' = [gpc EXCEPT ![g].at = "call"]
    /\ input' = [input EXCEPT ![g] = [fn |-> "Write", p |-> p]]
    /\ UNCHANGED << requestVars, debugLines, output, once, patterns, initCount >>

\* goroutine g enters FilteredLogger(writer) and comes to its call of
\* initRegex
FilteredLoggerCall(g) ==
    /\ gpc[g].at = "idle"
    /\ gpc' = [gpc EXCEPT ![g].at = "call"]
    /\ input' = [input EXCEPT ![g] = [fn |-> "FilteredLogger", p |-> <<>>]]
    /\ UNCHANGED << requestVars, debugLines, output, once, patterns, initCount >>

\* LoggerFilterWriter.Write after initRegex has returned: the line is
\* matched and handed to the Writer or dropped; res is what
\* w.Writer.Write(p) returns if it is called
LoggerFilterWriterWrite(g, res) ==
    LET p == input[g].p
        outcome == filterOutcome(p, patterns)
        call == Call("Write", p, res)
    IN  /\ gpc[g].at = "read"
        /\ input[g].fn = "Write"
        /\ gpc' = [gpc EXCEPT ![g].at = "returned"]
        /\ IF outcome = "forward"
           THEN /\ under' = Append(under, call)
                /\ output' = [output EXCEPT ![g] =
                                 [returned |-> TRUE, n |-> res.n, err |-> res.err,
                                  panicked |-> FALSE, wrote |-> << call >>]]
           ELSE /\ under' = under
                /\ output' = [output EXCEPT ![g] =
                                 [returned |-> outcome = "suppress",
                                  n |-> IF outcome = "suppress" THEN Len(p) ELSE 0,
                                  err |-> FALSE,
                                  panicked |-> outcome = "panic",
                                  wrote |-> <<>>]]
        /\ UNCHANGED << pc, entry, branch, req, body, requestBody, writer, calls,
                        plan, handlerSaw, nextCalls, log, debugLines, input,
                        once, patterns, initCount >>

\* FilteredLogger after initRegex has returned: it builds the filter and
\* returns the gin logger set up with it
FilteredLoggerReturn(g) ==
    /\ gpc[g].at = "read"
    /\ input[g].fn = "FilteredLogger"
    /\ gpc' = [gpc EXCEPT ![g].at = "returned"]
    /\ output' = [output EXCEPT ![g] = [noResult EXCEPT !.returned = TRUE]]
    /\ UNCHANGED << requestVars, debugLines, input, once, patterns, initCount >>

NextFilter ==
    \/ \E g \in Writers, p \in LogLines : LoggerFilterWriterWriteCall(g, p)
    \/ \E g \in Writers : FilteredLoggerCall(g)
    \/ \E g \in Writers : onceDo(g)
    \/ \E g \in Writers : onceLock(g)
    \/ \E g \in Writers : onceLook(g)
    \/ \E g \in Writers : initListApiRegex(g)
    \/ \E g \in Writers : initGetApiRegex(g)
    \/ \E g \in Writers : initPathRegex(g)
    \/ \E g \in Writers : onceStore(g)
    \/ \E g \in Writers : onceUnlock(g)
    \/ \E g \in Writers : \E res \in FilterResults(input[g].p) :
          LoggerFilterWriterWrite(g, res)
    \/ \E g \in Writers : FilteredLoggerReturn(g)

SpecFilter == InitFilter /\ [][NextFilter]_vars

\* the line of goroutine g went to the Writer once, as it came, and Write
\* returned what the Writer returned
Forwarded(g) ==
    /\ output[g].wrote = << Call("Write", input[g].p,
                                 [n |-> output[g].n, err |-> output[g].err]) >>
    /\ \E i \in 1..Len(under) : under[i] = output[g].wrote[1]

\* the Writer was not called for the line of goroutine g and Write returned
\* (len(p), nil)
Suppressed(g) ==
    /\ output[g].wrote = <<>>
    /\ output[g].n = Len(input[g].p)
    /\ ~output[g].err

\* C15: LoggerFilterWriter.Write either forwards the whole line unchanged
\* or suppresses it returning (len(p), nil), and it forwards a line that
\* contains "[GIN]" only if the line names a media file, that is, contains
\* an extension of the registry.
C15_OnlyMediaLinesForwarded ==
    \A g \in Writers :
       (gpc[g].at = "returned" /\ input[g].fn = "Write") =>
          /\ output[g].returned
          /\ Forwarded(g) \/ Suppressed(g)
          /\ Len(under) = Cardinality({ h \in Writers : output[h].wrote # <<>> })
          /\ (Contains(input[g].p, sGin) /\ Forwarded(g)) =>
                containsMediaExtension(input[g].p)

\* C16: on every path of MediaLoggerMiddleware and MediaLoggerWithDebug the
\* handler chain is invoked exactly once for a request (c.Next is called
\* once, on no path skipped or repeated), and no record is emitted for the
\* request before that invocation has returned.
C16_NextOnceRecordsAfter ==
    /\ pc = "idle" => nextCalls = 0 /\ log = <<>>
    /\ pc \in {"handler", "writing"} => nextCalls = 1 /\ log = <<>>
    /\ pc = "done" => nextCalls = 1
    /\ (calls # <<>> \/ handlerSaw.read) => pc \in {"writing", "done"}

\* a request under MediaLoggerWithDebug has run to its end: c.Next was
\* called once, the handler wrote its response, and one record followed
C16_Witness ==
    /\ pc = "done"
    /\ entry = "MediaLoggerWithDebug"
    /\ nextCalls = 1
    /\ calls # <<>>
    /\ Len(log) = 1

(***************************************************************************)
(* The earlier logger (log_filter.go, lines 284-477): MediaLoggerMiddleware *)
(* with the same chain of branches as the later one, and handlers that     *)
(* write their lines through log.Infof.  handleFSListRequest writes one    *)
(* line that names the directory asked for and all the media files of the  *)
(* listing.  A line is modelled by the method, the request path and what   *)
(* the handler adds to them; the time, the status, the latency and the     *)
(* client address it also prints are left out.                             *)
(***************************************************************************)
\* the line of lines 306-313: a media file asked for by its path
DirectLine(method, path) ==
    [tag |-> "directAccess", method |-> method, path |-> path]

\* the line of lines 395-404: the directory of the request and the names of
\* the media files
ListLine(method, path, dir, files) ==
    [tag |-> "listAccess", method |-> method, path |-> path, dir |-> dir,
     files |-> files]

\* the line of lines 454-463: the name and the path of the file
GetLine(method, path, name, filePath) ==
    [tag |-> "getAccess", method |-> method, path |-> path, name |-> name,
     filePath |-> filePath]

\* func isMediaFile(filename string) bool of the earlier logger
isMediaFile(filename) == ToLower(FilepathExt(filename)) \in mediaExtensions

\* the mediaFiles the earlier handleFSListRequest collects: names only
earlierListMediaFiles(responseData) ==
    LET resp == IF Len(responseData) > 0
                THEN unmarshalFsListResponse(responseData).val
                ELSE fsListResponse
        isMedia(item) == isMediaFile(item.Name)
        hits == SelectSeq(resp.Content, isMedia)
    IN  IF resp.Code = 200 /\ Len(resp.Content) > 0
        THEN [i \in 1..Len(hits) |-> hits[i].Name]
        ELSE <<>>

\* the earlier MediaLoggerMiddleware up to its call of c.Next(): the branch
\* is chosen by the same chain of tests; handleFSListRequest and
\* handleFSGetRequest capture the request body and wrap the writer, the
\* other branches touch neither
MediaLoggerMiddlewareEarlierEnter(path, method, rb) ==
    LET b == Classify(path)
        stream == rb.stream
        cap == captureRequestBody(stream)
    IN  /\ pc = "idle"
        /\ pc' = "handler"
        /\ entry' = "MediaLoggerMiddlewareEarlier"
        /\ branch' = b
        /\ req' = [path |-> path, method |-> method, sent |-> rb.sent,
                   stream |-> stream]
        /\ IF intercepts(b) /\ stream.src # "nil"
           THEN body' = cap.body /\ requestBody' = cap.requestBody
           ELSE body' = stream /\ requestBody' = <<>>
        /\ writer' = IF intercepts(b) THEN newResponseBodyWriter ELSE ginWriter
        /\ nextCalls' = nextCalls + 1
        /\ UNCHANGED << aux, under, calls, plan, handlerSaw, log >>

\* c.Next() returns to the earlier logger, which runs to its end writing
\* its lines
FinishEarlier(lines) ==
    /\ pc = "writing"
    /\ entry = "MediaLoggerMiddlewareEarlier"
    /\ pc' = "done"
    /\ plan' = <<>>
    /\ debugLines' = debugLines \o lines
    /\ UNCHANGED << entry, branch, req, body, requestBody, writer, under,
                    calls, handlerSaw, nextCalls, log, input, output,
                    once, patterns, gpc, initCount >>

\* the earlier MediaLoggerMiddleware, ignored prefix or neither media nor
\* list/get: nothing follows c.Next()
PassThroughEarlierReturn ==
    /\ branch \in {"Ignored", "Other"}
    /\ FinishEarlier(<<>>)

\* the earlier MediaLoggerMiddleware, isMediaFilePath(path): one line
DirectMediaEarlierReturn ==
    /\ branch = "DirectMedia"
    /\ FinishEarlier(<< DirectLine(req.method, req.path) >>)

\* the earlier handleFSListRequest after c.Next()
handleFSListRequestEarlierReturn ==
    LET r == IF Len(requestBody) > 0
             THEN unmarshalFsRequest(requestBody).val
             ELSE fsRequest
        mediaFiles == earlierListMediaFiles(writer.body)
    IN  /\ branch = "ListQuery"
        /\ FinishEarlier(IF Len(mediaFiles) > 0
                         THEN << ListLine(req.method, req.path, r.Path,
                                          mediaFiles) >>
                         ELSE <<>>)

\* the earlier handleFSGetRequest after c.Next()
handleFSGetRequestEarlierReturn ==
    LET resp == IF Len(writer.body) > 0
                THEN unmarshalFsGetResponse(writer.body).val
                ELSE fsGetResponse
    IN  /\ branch = "GetQuery"
        /\ FinishEarlier(IF resp.Code = 200 /\ isMediaFile(resp.Data.Name)
                         THEN << GetLine(req.method, req.path, resp.Data.Name,
                                         resp.Data.Path) >>
                         ELSE <<>>)

\* one request under the later or under the earlier MediaLoggerMiddleware
NextLoggers ==
    \/ \E path \in Paths, method \in Methods, rb \in RequestBodies :
          MediaLoggerMiddlewareEnter(path, method, rb)
    \/ \E path \in Paths, method \in Methods, rb \in RequestBodies :
          MediaLoggerMiddlewareEarlierEnter(path, method, rb)
    \/ \E p \in Plans : HandlerBegin(p)
    \/ /\ plan # <<>>
       /\ \E res \in WriteResults(Head(plan).data) : HandlerWrite(res)
    \/ PassThroughReturn
    \/ DirectMediaReturn
    \/ handleFSListRequestReturn
    \/ handleFSGetRequestReturn
    \/ PassThroughEarlierReturn
    \/ DirectMediaEarlierReturn
    \/ handleFSListRequestEarlierReturn
    \/ handleFSGetRequestEarlierReturn

SpecLoggers == Init /\ [][NextLoggers]_vars

\* the names of the content entries that have a registry extension, in
\* their order
ExpectedListNames(data) ==
    LET items == unmarshalFsListResponse(data).val.Content
        named(it) == endsInMediaExt(it.Name)
        media == SelectSeq(items, named)
    IN  [i \in 1..Len(media) |-> media[i].Name]

\* C3: for a list request whose captured response decodes without error as
\* an envelope of code 200, handleFSListRequest, the earlier and the later
\* one alike, emits exactly one record for each content entry whose name
\* has a registry extension, all of them, in the order of the envelope, and
\* none when no entry has one.
C3_OneRecordPerMediaEntryInEitherHandler ==
    (/\ pc = "done"
     /\ entry \in {"MediaLoggerMiddleware", "MediaLoggerMiddlewareEarlier"}
     /\ Classify(req.path) = "ListQuery"
     /\ Len(writer.body) > 0
     /\ ~unmarshalFsListResponse(writer.body).err
     /\ EnvelopeCodeIs(writer.body, 200)) =>
        IF entry = "MediaLoggerMiddleware"
        THEN /\ log = ExpectedListRecords(writer.body)
             /\ debugLines = <<>>
        ELSE /\ log = <<>>
             /\ Len(debugLines) = Len(ExpectedListNames(writer.body))
             /\ \A i \in 1..Len(debugLines) :
                   /\ debugLines[i].tag = "listAccess"
                   /\ debugLines[i].files =
                         << ExpectedListNames(writer.body)[i] >>
====
